---- MODULE Spec2Model ----
(***************************************************************************)
(* Model of the SimpleSelect touchscreen route selector                    *)
(* (src/src/simple/mod.rs): the shared SelectorState, the background       *)
(* display/touch polling task, the programmatic select operation and the   *)
(* Selector::run operation, under vexide's single-threaded cooperative     *)
(* scheduler.  Every action is one synchronous section of one task: the    *)
(* code between two suspension points.                                     *)
(***************************************************************************)
EXTENDS Integers, Sequences, FiniteSets, TLC

VARIABLES
    N,                \* const generic N: number of routes
    selection,        \* SelectorState.selection
    dirty_selection,  \* SelectorState.dirty_selection (None or an index)
    borrow,           \* RefCell borrow flag: 0 free, k > 0 readers, -1 writer
    active_item,      \* loop-local active_item (None or an index)
    screen,           \* what each cell of the display currently shows
    log,              \* draws and writes of the loop task's latest section
    loopPc,           \* position of the background task
    runPc,            \* position of a Selector::run call
    routine,          \* index of the routine future awaited by run
    invoked,          \* callbacks invoked by the current run call, in order
    polls,            \* resumptions of the awaited routine so far
    pending,          \* select calls since the loop task last ran: 0, 1, 2 = several
    served,           \* value of pending when the loop task last ran an iteration
    compete,          \* the competition runtime: phase, position, hooks run
    probe,            \* a helper function under evaluation: input and result
    fault             \* "none", or the panic that stopped the program

vars == <<N, selection, dirty_selection, borrow, active_item, screen, log,
          loopPc, runPc, routine, invoked, polls, pending, served,
          compete, probe, fault>>

----------------------------------------------------------------------------
(* Bounds of the model *)

\* largest route count of Spec and SpecTouch
MaxN == 3
\* largest route count of SpecAll
MaxNAll == 2
\* resumptions of a routine before it completes
MaxPolls == 1
\* largest route count a construction is tried with
MaxCount == 17
\* rows of 40 pixels covered by the probed touch positions: 0 .. MaxProbeRow
MaxProbeRow == 6
\* longest path, in segments, of a routine handed to route!
MaxSegments == 3

(* Touch samples: pixel positions <<x, y>> on the 480 x 240 display, in the *)
(* first four rows of the left column and in the right column              *)
TouchPoints == {<<0, 0>>, <<0, 40>>, <<0, 80>>, <<0, 120>>, <<240, 0>>}
TouchStates == {"Released", "Pressed", "Held"}

----------------------------------------------------------------------------
(* Program constants *)

HORIZONTAL_RESOLUTION == 480
ROW_HEIGHT == 40
ROWS == 6
MAX_ROUTES == 12

None == -1

Routes == 0 .. (N - 1)

----------------------------------------------------------------------------
(* RefCell *)

BorrowFailed == -2

RefCellBorrow(b) == IF b >= 0 THEN b + 1 ELSE BorrowFailed

RefCellBorrowMut(b) == IF b = 0 THEN -1 ELSE BorrowFailed

----------------------------------------------------------------------------
(* Touch-to-index mapping *)

\* i16 division truncates toward zero
TruncDiv(a, b) == IF a >= 0 THEN a \div b ELSE -((-a) \div b)

TouchIndex(x, y) ==
    (ROWS * TruncDiv(x, HORIZONTAL_RESOLUTION \div 2)) + TruncDiv(y, ROW_HEIGHT)

IsDown(st) == st \in {"Held", "Pressed"}

----------------------------------------------------------------------------
(* Renderer *)

Appearance(selected, active) ==
    CASE ~selected /\ ~active -> "default"
      [] ~selected /\ active  -> "active"
      [] selected /\ ~active  -> "selected"
      [] selected /\ active   -> "selected_active"

\* events recorded in log
Draw(index, selected, active) ==
    [op |-> "draw", index |-> index, selected |-> selected, active |-> active]

Write(field, value) ==
    [op |-> field, index |-> value, selected |-> FALSE, active |-> FALSE]

\* A section of the loop task works on a record s of the shared state, the
\* loop's locals, the display and the log; a panic (s.fault) ends the section.
\* draw_item as called with the label state.routes[index].name
DrawItem(s, index, selected, active) ==
    IF s.fault # "none" THEN s
    ELSE IF index \notin 0 .. (s.n - 1) THEN [s EXCEPT !.fault = "bounds"]
    ELSE [s EXCEPT !.screen[index + 1] = Appearance(selected, active),
                   !.log = Append(@, Draw(index, selected, active))]

SetActiveItem(s, value) ==
    IF s.fault # "none" THEN s ELSE [s EXCEPT !.active_item = value]

SetSelection(s, value) ==
    IF s.fault # "none" THEN s
    ELSE [s EXCEPT !.selection = value,
                   !.log = Append(@, Write("selection", value))]

SetDirtySelection(s, value) ==
    IF s.fault # "none" THEN s
    ELSE [s EXCEPT !.dirty_selection = value,
                   !.log = Append(@, Write("dirty_selection", value))]

----------------------------------------------------------------------------
(* The polling loop body *)

\* variant: the cell the finger left keeps its active appearance
TouchDownNoRestore(s, touch_index) ==
    IF (s.active_item = None \/ s.active_item # touch_index)
         /\ touch_index < s.n
    THEN SetActiveItem(DrawItem(s, touch_index,
                                touch_index = s.selection, TRUE), touch_index)
    ELSE IF s.active_item # None /\ s.active_item # touch_index
    THEN SetActiveItem(DrawItem(s, s.active_item,
                                s.active_item = s.selection, FALSE), None)
    ELSE s

\* variant: a press dragged off the grid stays tracked
TouchDownNoOffGrid(s, touch_index) ==
    IF (s.active_item = None \/ s.active_item # touch_index)
         /\ touch_index < s.n
    THEN LET s1 == IF s.active_item # None
                   THEN DrawItem(s, s.active_item,
                                 s.active_item = s.selection, FALSE)
                   ELSE s
             s2 == DrawItem(s1, touch_index, touch_index = s.selection, TRUE)
         IN  SetActiveItem(s2, touch_index)
    ELSE s

\* variant: a held cell is redrawn on every tick
TouchDownRedrawsHeld(s, touch_index) ==
    IF touch_index < s.n
    THEN LET s1 == IF s.active_item # None
                   THEN DrawItem(s, s.active_item,
                                 s.active_item = s.selection, FALSE)
                   ELSE s
             s2 == DrawItem(s1, touch_index, touch_index = s.selection, TRUE)
         IN  SetActiveItem(s2, touch_index)
    ELSE IF s.active_item # None /\ s.active_item # touch_index
    THEN SetActiveItem(DrawItem(s, s.active_item,
                                s.active_item = s.selection, FALSE), None)
    ELSE s

\* variant: the touched cell is highlighted without the touch_index < N test
TouchDownUnchecked(s, touch_index) ==
    IF s.active_item = None \/ s.active_item # touch_index
    THEN LET s1 == IF s.active_item # None
                   THEN DrawItem(s, s.active_item,
                                 s.active_item = s.selection, FALSE)
                   ELSE s
             s2 == DrawItem(s1, touch_index, touch_index = s.selection, TRUE)
         IN  SetActiveItem(s2, touch_index)
    ELSE s

\* touch is Held or Pressed
TouchDown(s, touch_index) ==
    IF (s.active_item = None \/ s.active_item # touch_index)
         /\ touch_index < s.n
    THEN LET s1 == IF s.active_item # None
                   THEN DrawItem(s, s.active_item,
                                 s.active_item = s.selection, FALSE)
                   ELSE s
             s2 == DrawItem(s1, touch_index, touch_index = s.selection, TRUE)
         IN  SetActiveItem(s2, touch_index)
    ELSE IF s.active_item # None /\ s.active_item # touch_index
    THEN SetActiveItem(DrawItem(s, s.active_item,
                                s.active_item = s.selection, FALSE), None)
    ELSE s

\* variant: a release on any in-range cell commits that cell
TouchUpAnyCell(s, touch_index) ==
    IF touch_index < s.n
    THEN LET s1 == DrawItem(s, s.selection, FALSE, FALSE)
             s2 == DrawItem(s1, touch_index, TRUE, FALSE)
             s3 == SetSelection(s2, touch_index)
         IN  SetActiveItem(s3, None)
    ELSE SetActiveItem(DrawItem(s, s.active_item, FALSE, FALSE), None)

\* variant: the commit redraws the cells but does not store the selection
TouchUpNoStore(s, touch_index) ==
    IF touch_index = s.active_item /\ touch_index < s.n
    THEN LET s1 == DrawItem(s, s.selection, FALSE, FALSE)
             s2 == DrawItem(s1, s.active_item, TRUE, FALSE)
         IN  SetActiveItem(s2, None)
    ELSE SetActiveItem(DrawItem(s, s.active_item, FALSE, FALSE), None)

\* touch is Released and a cell is tracked
TouchUp(s, touch_index) ==
    IF touch_index = s.active_item /\ touch_index < s.n
    THEN LET s1 == DrawItem(s, s.selection, FALSE, FALSE)
             s2 == DrawItem(s1, s.active_item, TRUE, FALSE)
             s3 == SetSelection(s2, s.active_item)
         IN  SetActiveItem(s3, None)
    ELSE SetActiveItem(DrawItem(s, s.active_item, FALSE, FALSE), None)

\* variant: the old cell is repainted but the new selection is not
ReconcileOldOnly(s) ==
    IF s.fault = "none" /\ s.dirty_selection # None
    THEN SetDirtySelection(DrawItem(s, s.dirty_selection, FALSE, FALSE), None)
    ELSE s

Reconcile(s) ==
    IF s.fault = "none" /\ s.dirty_selection # None
    THEN LET s1 == DrawItem(s, s.dirty_selection, FALSE, FALSE)
             s2 == DrawItem(s1, s1.selection, TRUE, FALSE)
         IN  SetDirtySelection(s2, None)
    ELSE s

LoopBody(s, st, x, y) ==
    LET touch_index == TouchIndex(x, y)
        s1 == IF IsDown(st) THEN TouchDown(s, touch_index)
              ELSE IF s.active_item # None THEN TouchUp(s, touch_index)
              ELSE s
    IN  Reconcile(s1)

\* variant: every route is painted in its default appearance
RECURSIVE PaintFromNoHighlight(_, _)
PaintFromNoHighlight(s, i) ==
    IF i >= s.n THEN s
    ELSE PaintFromNoHighlight(DrawItem(s, i, FALSE, FALSE), i + 1)

\* the initial paint: every route drawn, the selected one highlighted
RECURSIVE PaintFrom(_, _)
PaintFrom(s, i) ==
    IF i >= s.n THEN s
    ELSE PaintFrom(DrawItem(s, i, i = s.selection, FALSE), i + 1)

----------------------------------------------------------------------------
(* State *)

Shown(i) == screen[i + 1]

\* the record a section of the loop task starts from
LoopState ==
    [n |-> N, selection |-> selection, dirty_selection |-> dirty_selection,
     active_item |-> active_item, screen |-> screen, log |-> <<>>,
     fault |-> "none"]

\* no competition runtime is attached; no helper is under evaluation
NoCompete == [mode |-> "none", pc |-> "none", trace |-> <<>>]

NoProbe == [op |-> "none"]

\* construction with n routes: new_with_theme up to task::spawn
NewWithTheme(n) ==
    /\ N = n
    /\ selection = 0
    /\ dirty_selection = None
    /\ borrow = 0
    /\ active_item = None
    /\ screen = [i \in 1 .. N |-> "blank"]
    /\ log = <<>>
    /\ loopPc = "spawned"
    /\ runPc = "idle"
    /\ routine = None
    /\ invoked = <<>>
    /\ polls = 0
    /\ pending = 0
    /\ served = 0
    /\ compete = NoCompete
    /\ probe = NoProbe
    /\ fault = "none"

\* the selector's variables before construction
NoSelector(n) ==
    /\ N = n
    /\ selection = None
    /\ dirty_selection = None
    /\ borrow = 0
    /\ active_item = None
    /\ screen = <<>>
    /\ log = <<>>
    /\ loopPc = "unbuilt"
    /\ runPc = "idle"
    /\ routine = None
    /\ invoked = <<>>
    /\ polls = 0
    /\ pending = 0
    /\ served = 0
    /\ fault = "none"

\* before construction: no selector state, no task, nothing on the display
Unbuilt(n) == NoSelector(n) /\ compete = NoCompete /\ probe = NoProbe

Panic(kind) ==
    /\ fault' = kind
    /\ UNCHANGED <<N, selection, dirty_selection, borrow, active_item,
                   screen, log, loopPc, runPc, routine, invoked, polls,
                   pending, served>>

----------------------------------------------------------------------------
(* Construction *)

\* variant: the bound of the struct documentation
ConstAssertSixteen(n) == n > 0 /\ n <= 16

\* the const block of new_with_theme
ConstAssert(n) == n > 0 /\ n <= MAX_ROUTES

\* new_with_theme for a route array of length N: the const assertion, then
\* the state and the spawned task
Construct ==
    /\ fault = "none"
    /\ loopPc = "unbuilt"
    /\ IF ~ConstAssert(N) THEN Panic("const_assert")
       ELSE /\ selection' = 0
            /\ dirty_selection' = None
            /\ screen' = [i \in 1 .. N |-> "blank"]
            /\ loopPc' = "spawned"
            /\ UNCHANGED <<N, borrow, active_item, log, runPc, routine,
                           invoked, polls, pending, served, fault>>
    /\ UNCHANGED <<compete, probe>>

----------------------------------------------------------------------------
(* The background task *)

\* end of the block that holds the initial paint's Ref
PaintBlockEnd(b) == b - 1

\* variant: the RefMut is still held during the sleep
LoopDropStateMissing(b) == b

\* drop(state) before the sleep
LoopDropState(b) == b + 1

\* first poll of the spawned task, up to the loop: background, grid, items
InitialPaint ==
    /\ fault = "none"
    /\ loopPc = "spawned"
    /\ LET b == RefCellBorrow(borrow) IN
       IF b = BorrowFailed THEN Panic("borrow")
       ELSE LET s == PaintFrom(LoopState, 0) IN
            /\ screen' = s.screen
            /\ log' = s.log
            /\ fault' = s.fault
            /\ borrow' = PaintBlockEnd(b)
            /\ loopPc' = "painted"
            /\ UNCHANGED <<N, selection, dirty_selection, active_item,
                           runPc, routine, invoked, polls, pending,
                           served>>
    /\ UNCHANGED <<compete, probe>>

\* one iteration of the loop, from borrow_mut to the sleep
TickWith(st, x, y) ==
    /\ fault = "none"
    /\ loopPc \in {"painted", "sleeping"}
    /\ LET b == RefCellBorrowMut(borrow) IN
       IF b = BorrowFailed THEN Panic("borrow")
       ELSE LET s == LoopBody(LoopState, st, x, y) IN
            /\ loopPc' = "sleeping"
            /\ pending' = 0
            /\ served' = pending
            /\ borrow' = LoopDropState(b)
            /\ selection' = s.selection
            /\ dirty_selection' = s.dirty_selection
            /\ active_item' = s.active_item
            /\ screen' = s.screen
            /\ log' = s.log
            /\ fault' = s.fault
            /\ UNCHANGED <<N, runPc, routine, invoked, polls>>
    /\ UNCHANGED <<compete, probe>>

Tick == \E st \in TouchStates, p \in TouchPoints : TickWith(st, p[1], p[2])

----------------------------------------------------------------------------
(* Operations of the handle, called from the main task while the loop task *)
(* is suspended or not yet polled                                          *)

\* a handle exists and the loop task is suspended or not yet polled
MainTaskRuns == fault = "none" /\ loopPc \in {"spawned", "sleeping"}

\* variant: off-by-one bound in the assertion
SelectAssertOffByOne(index) == index <= N

SelectAssert(index) == index < N

\* variant: a re-selection of the current route is skipped
SelectBodySkipSame(st, index) ==
    IF index = st.selection THEN st
    ELSE [selection |-> index, dirty_selection |-> st.selection]

\* the two assignments of select, on [selection, dirty_selection]
SelectBody(st, index) ==
    LET st1 == [st EXCEPT !.dirty_selection = st.selection]
    IN  [st1 EXCEPT !.selection = index]

\* the RefMut of select dropped at the end of the function
SelectReturn(b) == b + 1

\* variant: an index past the end selects the last route
SelectClamped(index) ==
    /\ MainTaskRuns
    /\ runPc # "awaiting"
    /\ LET b == RefCellBorrowMut(borrow) IN
       IF b = BorrowFailed THEN Panic("borrow")
       ELSE /\ selection' = IF index < N THEN index ELSE N - 1
            /\ dirty_selection' = selection
            /\ borrow' = SelectReturn(b)
            /\ pending' = IF pending < 2 THEN pending + 1 ELSE 2
            /\ UNCHANGED <<N, active_item, screen, log, loopPc,
                           runPc, routine, invoked, polls, served,
                           fault>>
    /\ UNCHANGED <<compete, probe>>

Select(index) ==
    /\ MainTaskRuns
    /\ runPc # "awaiting"
    /\ IF ~SelectAssert(index) THEN Panic("assert")
       ELSE LET b == RefCellBorrowMut(borrow) IN
            IF b = BorrowFailed THEN Panic("borrow")
            ELSE LET st == SelectBody([selection |-> selection,
                                       dirty_selection |-> dirty_selection],
                                      index) IN
                 /\ selection' = st.selection
                 /\ dirty_selection' = st.dirty_selection
                 /\ borrow' = SelectReturn(b)
                 /\ pending' = IF pending < 2 THEN pending + 1 ELSE 2
                 /\ UNCHANGED <<N, active_item, screen, log, loopPc,
                                runPc, routine, invoked, polls, served,
                                fault>>
    /\ UNCHANGED <<compete, probe>>

SelectCall == \E index \in 0 .. N : Select(index)

\* variant: the Ref lives until the routine has completed
RunBlockEndKeepsRef(b) == b

\* end of the block in run that holds the Ref
RunBlockEnd(b) == b - 1

\* variant: the route is looked up again at every resumption
AwaitedRoutineLookedUpAgain(r, sel) == sel

\* the future run awaits, at a resumption
AwaitedRoutine(r, sel) == r

\* the body of run up to the first suspension of the routine it awaits
RunFirstPoll ==
    /\ MainTaskRuns
    /\ runPc # "awaiting"
    /\ LET b == RefCellBorrow(borrow) IN
       IF b = BorrowFailed THEN Panic("borrow")
       ELSE IF selection \notin Routes THEN Panic("bounds")
       ELSE /\ routine' = selection
            /\ invoked' = <<selection>>
            /\ borrow' = RunBlockEnd(b)
            /\ runPc' = "awaiting"
            /\ polls' = 0
            /\ UNCHANGED <<N, selection, dirty_selection, active_item,
                           screen, log, loopPc, pending, served, fault>>
    /\ UNCHANGED probe

\* run called on the handle, outside the competition runtime
RunCall == RunFirstPoll /\ UNCHANGED compete

\* the routine is resumed and suspends again
RoutinePoll ==
    /\ MainTaskRuns
    /\ runPc = "awaiting"
    /\ polls < MaxPolls
    /\ polls' = polls + 1
    /\ routine' = AwaitedRoutine(routine, selection)
    /\ invoked' = IF routine' = routine THEN invoked
                  ELSE Append(invoked, routine')
    /\ UNCHANGED <<N, selection, dirty_selection, borrow, active_item,
                   screen, log, loopPc, runPc, pending, served,
                   compete, probe, fault>>

\* the awaited routine completes and run returns
RunReturn ==
    /\ MainTaskRuns
    /\ runPc = "awaiting"
    /\ runPc' = "done"
    /\ UNCHANGED <<N, selection, dirty_selection, borrow, active_item,
                   screen, log, loopPc, routine, invoked, polls, pending,
                   served, probe, fault>>

\* completion of a run called outside the competition runtime
RoutineDone == RunReturn /\ UNCHANGED compete

(* The selector with its display task and programmatic selection *)
Init == \E n \in 1 .. MaxN : NewWithTheme(n)

Next ==
    \/ InitialPaint
    \/ Tick
    \/ SelectCall

Spec == Init /\ [][Next]_vars

(* The selector driven through a whole match: selection and route runs *)
InitAll == \E n \in 1 .. MaxNAll : NewWithTheme(n)

NextAll ==
    \/ InitialPaint
    \/ Tick
    \/ SelectCall
    \/ RunCall
    \/ RoutinePoll
    \/ RoutineDone

SpecAll == InitAll /\ [][NextAll]_vars

(* Construction with any route count, the first paint and selection *)
InitNew == \E n \in 0 .. MaxCount : Unbuilt(n)

NextNew ==
    \/ Construct
    \/ InitialPaint
    \/ SelectCall

SpecNew == InitNew /\ [][NextNew]_vars

----------------------------------------------------------------------------
(* The competition runtime built by SelectCompeteExt::compete: on entry to *)
(* a phase it drops the future of the previous phase and creates the one   *)
(* of the new phase; compete.trace lists what that future has done         *)

Modes == {"connected", "disconnected", "disabled", "autonomous", "driver"}

SelectorVars ==
    <<N, selection, dirty_selection, borrow, active_item, screen, log,
      loopPc, pending, served, fault>>

\* the field control signal reports the phase m
PhaseEnter(m) ==
    /\ MainTaskRuns
    /\ m # compete.mode
    /\ compete' = [mode |-> m, pc |-> "start", trace |-> <<>>]
    /\ IF runPc = "awaiting"
       THEN runPc' = "idle" /\ routine' = None /\ invoked' = <<>>
            /\ polls' = 0
       ELSE UNCHANGED <<runPc, routine, invoked, polls>>
    /\ UNCHANGED <<SelectorVars, probe>>

\* on_connect, on_disconnect, while_disabled, while_driving: the hook of
\* the robot starts
HookBegin ==
    /\ MainTaskRuns
    /\ compete.mode \in Modes \ {"autonomous"}
    /\ compete.pc = "start"
    /\ compete' = [compete EXCEPT !.pc = "hook",
                                  !.trace = Append(@, compete.mode)]
    /\ UNCHANGED <<SelectorVars, runPc, routine, invoked, polls, probe>>

\* the hook of the robot completes and the future of the phase returns
HookEnd ==
    /\ MainTaskRuns
    /\ compete.mode \in Modes \ {"autonomous"}
    /\ compete.pc = "hook"
    /\ compete' = [compete EXCEPT !.pc = "finished"]
    /\ UNCHANGED <<SelectorVars, runPc, routine, invoked, polls, probe>>

\* variant: the route is run before the before_route hook
AutonomousBeginRunsRoute ==
    /\ compete.mode = "autonomous"
    /\ compete.pc = "start"
    /\ RunFirstPoll
    /\ compete' = IF fault' # "none" THEN compete
                  ELSE [compete EXCEPT !.pc = "run",
                                       !.trace = Append(@, "run:start")]

\* while_autonomous: before_route starts
AutonomousBegin ==
    /\ MainTaskRuns
    /\ compete.mode = "autonomous"
    /\ compete.pc = "start"
    /\ compete' = [compete EXCEPT !.pc = "before_route",
                                  !.trace = Append(@, "before_route:start")]
    /\ UNCHANGED <<SelectorVars, runPc, routine, invoked, polls, probe>>

\* before_route completes and the selector's run starts
AutonomousRun ==
    /\ compete.mode = "autonomous"
    /\ compete.pc = "before_route"
    /\ RunFirstPoll
    /\ compete' = IF fault' # "none" THEN compete
                  ELSE [compete EXCEPT
                          !.pc = "run",
                          !.trace = @ \o <<"before_route:end", "run:start">>]

\* the routine completes, run returns and after_route starts
AutonomousAfter ==
    /\ compete.mode = "autonomous"
    /\ compete.pc = "run"
    /\ RunReturn
    /\ compete' = [compete EXCEPT
                     !.pc = "after_route",
                     !.trace = @ \o <<"run:end", "after_route:start">>]

\* after_route completes and the future of the phase returns
AutonomousEnd ==
    /\ MainTaskRuns
    /\ compete.mode = "autonomous"
    /\ compete.pc = "after_route"
    /\ compete' = [compete EXCEPT !.pc = "finished",
                                  !.trace = Append(@, "after_route:end")]
    /\ UNCHANGED <<SelectorVars, runPc, routine, invoked, polls, probe>>

NextCompete ==
    \/ InitialPaint
    \/ Tick
    \/ \E m \in Modes : PhaseEnter(m)
    \/ HookBegin
    \/ HookEnd
    \/ AutonomousBegin
    \/ AutonomousRun
    \/ RoutinePoll
    \/ AutonomousAfter
    \/ AutonomousEnd

SpecCompete == InitAll /\ [][NextCompete]_vars

----------------------------------------------------------------------------
(* The touch-to-index mapping on its own, over positions in both halves *)
ProbeXs == {0, 239, 240, 479}

ProbeYs == UNION {{ROW_HEIGHT * r, ROW_HEIGHT * r + (ROW_HEIGHT - 1)} :
                    r \in 0 .. MaxProbeRow}

InitIndex ==
    /\ NoSelector(0)
    /\ compete = NoCompete
    /\ \E n \in 1 .. MAX_ROUTES, x \in ProbeXs, y1 \in ProbeYs, y2 \in ProbeYs :
         probe = [op |-> "touch_index", n |-> n, x |-> x, y1 |-> y1,
                  y2 |-> y2, i1 |-> 0, i2 |-> 0, done |-> FALSE]

\* touch_index computed for two samples of the same column
ProbeTouchIndex ==
    /\ probe.op = "touch_index"
    /\ ~probe.done
    /\ probe' = [probe EXCEPT !.i1 = TouchIndex(probe.x, probe.y1),
                              !.i2 = TouchIndex(probe.x, probe.y2),
                              !.done = TRUE]
    /\ UNCHANGED <<N, selection, dirty_selection, borrow, active_item,
                   screen, log, loopPc, runPc, routine, invoked, polls,
                   pending, served, compete, fault>>

NextIndex == ProbeTouchIndex

SpecIndex == InitIndex /\ [][NextIndex]_vars

(* Hit-testing against the rectangle draw_item fills *)

\* variant: rows packed at the height of the filled rectangle
FillRectPacked(index) ==
    [x |-> IF index <= 5 THEN 0 ELSE HORIZONTAL_RESOLUTION \div 2,
     y |-> (index % ROWS) * 38,
     width |-> 238,
     height |-> 38]

\* the Rect::from_dimensions argument of display.fill in draw_item
FillRect(index) ==
    [x |-> IF index <= 5 THEN 0 ELSE HORIZONTAL_RESOLUTION \div 2,
     y |-> (index % ROWS) * ROW_HEIGHT,
     width |-> 238,
     height |-> 38]

\* the pixels of a rectangle, from its start corner to start + dimensions
RectXs(r) == r.x .. (r.x + r.width)
RectYs(r) == r.y .. (r.y + r.height)

InitRect ==
    /\ NoSelector(0)
    /\ compete = NoCompete
    /\ \E index \in 0 .. (MAX_ROUTES - 1) :
         \E x \in RectXs(FillRect(index)), y \in RectYs(FillRect(index)) :
           probe = [op |-> "hit_test", index |-> index, x |-> x, y |-> y,
                    hit |-> None, done |-> FALSE]

\* touch_index computed for a pixel of a filled rectangle
ProbeHitTest ==
    /\ probe.op = "hit_test"
    /\ ~probe.done
    /\ probe' = [probe EXCEPT !.hit = TouchIndex(probe.x, probe.y),
                              !.done = TRUE]
    /\ UNCHANGED <<N, selection, dirty_selection, borrow, active_item,
                   screen, log, loopPc, runPc, routine, invoked, polls,
                   pending, served, compete, fault>>

NextRect == ProbeHitTest

SpecRect == InitRect /\ [][NextRect]_vars

----------------------------------------------------------------------------
(* The route! macro: texts are sequences of characters *)
Idents ==
    { <<"f">>, <<"a", "b">>, <<"r", "u", "n">>, <<"R", "o", "b", "o", "t">>,
      <<"r", "o", "u", "t", "e", "_", "1">> }

Labels == { <<>>, <<"R", "o", "u", "t", "e", " ", "1">>, <<"a", ":", "b">> }

\* the paths of k segments, joined by "::"
RECURSIVE Paths(_)
Paths(k) ==
    IF k = 1 THEN Idents
    ELSE {q \o <<":", ":">> \o id : q \in Paths(k - 1), id \in Idents}

\* core::any::type_name_of_val(&$func): the path of the function item,
\* which starts with the crate
TypeNames == UNION {Paths(k) : k \in 2 .. MaxSegments}

\* str::rfind(':') on the text t: the last position holding ':', 0 if none
RFind(t) ==
    LET at == {k \in 1 .. Len(t) : t[k] = ":"}
    IN  IF at = {} THEN 0 ELSE CHOOSE k \in at : \A j \in at : j <= k

\* the label computed by route!($func), for a type name of 3 characters
\* or more
RouteLabel(type_name) ==
    LET end == Len(type_name) - 3
        pos == RFind(SubSeq(type_name, 1, end))
    IN  IF pos # 0 THEN SubSeq(type_name, pos + 1, end)
        ELSE SubSeq(type_name, 1, end)

InitLabel ==
    /\ NoSelector(0)
    /\ compete = NoCompete
    /\ \E explicit \in BOOLEAN, name \in Labels, type_name \in TypeNames :
         probe = [op |-> "route", explicit |-> explicit,
                  name |-> IF explicit THEN name ELSE <<>>,
                  type_name |-> type_name, label |-> <<>>, done |-> FALSE]

\* route!($func): the label is derived from the type name
RouteFromPath ==
    /\ fault = "none"
    /\ probe.op = "route" /\ ~probe.explicit /\ ~probe.done
    /\ IF Len(probe.type_name) < 3
       THEN fault' = "slice" /\ UNCHANGED probe
       ELSE /\ probe' = [probe EXCEPT !.label = RouteLabel(probe.type_name),
                                      !.done = TRUE]
            /\ UNCHANGED fault
    /\ UNCHANGED <<N, selection, dirty_selection, borrow, active_item,
                   screen, log, loopPc, runPc, routine, invoked, polls,
                   pending, served, compete>>

\* route!($name, $func): the label is the one supplied
RouteFromName ==
    /\ fault = "none"
    /\ probe.op = "route" /\ probe.explicit /\ ~probe.done
    /\ probe' = [probe EXCEPT !.label = probe.name, !.done = TRUE]
    /\ UNCHANGED <<N, selection, dirty_selection, borrow, active_item,
                   screen, log, loopPc, runPc, routine, invoked, polls,
                   pending, served, compete, fault>>

NextLabel ==
    \/ RouteFromPath
    \/ RouteFromName

SpecLabel == InitLabel /\ [][NextLabel]_vars

(* The selector operated by touch alone: no programmatic selection *)
NextTouch ==
    \/ InitialPaint
    \/ Tick

SpecTouch == Init /\ [][NextTouch]_vars

----------------------------------------------------------------------------
TypeOK ==
    /\ N \in 0 .. MaxCount
    /\ borrow \in -1 .. 1
    /\ loopPc \in {"unbuilt", "spawned", "painted", "sleeping"}
    /\ runPc \in {"idle", "awaiting", "done"}
    /\ fault \in {"none", "borrow", "bounds", "assert", "const_assert",
                 "slice"}

----------------------------------------------------------------------------
(* Properties *)

SelectedLook(a) == a \in {"selected", "selected_active"}

ActiveLook(a) == a \in {"active", "selected_active"}

\* the cell drawn as selected is the cell at index sel, and no other
ScreenShows(sel) == \A i \in Routes : SelectedLook(Shown(i)) <=> i = sel

ScreenConsistent == ScreenShows(selection)

LogHas(e) == \E k \in 1 .. Len(log) : log[k] = e

Writes(field) == {k \in 1 .. Len(log) : log[k].op = field}

Committed == LogHas(Write("selection", selection))

\* C1: in every reachable state, whatever the interleaving of ticks, select
\* calls and run calls, selection is a valid index into the route table
C1_SelectionValid == selection \in Routes /\ N \in 1 .. MAX_ROUTES

\* a touch commit and a run have both happened and a select is pending
C1_Witness ==
    /\ loopPc = "sleeping" /\ Committed /\ selection > 0
    /\ runPc = "done" /\ pending > 0

\* C2: select(i) with valid i leaves selection = i and dirty_selection = the
\* selection before the call, and changes nothing else: no draw, no change
\* of the tracked active cell
C2_SelectEffect ==
    [][\A i \in Routes :
         Select(i) =>
           /\ selection' = i
           /\ dirty_selection' = selection
           /\ UNCHANGED <<N, borrow, active_item, screen, log, loopPc, runPc,
                          routine, invoked, polls, served, fault>>]_vars

\* a select of the route already selected, made while a cell is tracked
C2_Witness ==
    /\ pending = 1 /\ dirty_selection = selection
    /\ active_item # None /\ loopPc = "sleeping"

\* C3: a release sampled on the tracked in-range cell c sets selection to c,
\* writing it once, and clears the tracking; ticks with the touch up and no
\* tracked cell leave selection alone
C3_Commit ==
    [][\A p \in TouchPoints :
         /\ (/\ active_item # None /\ active_item < N
              /\ TouchIndex(p[1], p[2]) = active_item
              /\ TickWith("Released", p[1], p[2]))
            => /\ selection' = active_item
               /\ active_item' = None
               /\ Cardinality(Writes("selection")') = 1
         /\ (active_item = None /\ TickWith("Released", p[1], p[2]))
            => selection' = selection]_vars

\* the release committed a cell other than the one selected before
C3_Witness ==
    /\ loopPc = "sleeping" /\ Committed /\ active_item = None
    /\ Cardinality(Writes("selection")) = 1
    /\ LogHas(Draw(selection, TRUE, FALSE))
    /\ \E i \in Routes : i # selection /\ log[1] = Draw(i, FALSE, FALSE)

\* a release that is not a commit: off the tracked cell, or out of range
IsCancel(touch_index) ==
    active_item # None /\ (touch_index # active_item \/ touch_index >= N)

\* C4 as stated: a cancelling release tick leaves selection and
\* dirty_selection unchanged and clears the tracking; ticks with the touch
\* down or without a tracked cell never change selection
C4_CancelKeepsDirty ==
    [][\A st \in TouchStates, p \in TouchPoints :
         /\ (st = "Released" /\ IsCancel(TouchIndex(p[1], p[2]))
               /\ TickWith(st, p[1], p[2]))
            => /\ selection' = selection
               /\ dirty_selection' = dirty_selection
               /\ active_item' = None
         /\ ((IsDown(st) \/ active_item = None) /\ TickWith(st, p[1], p[2]))
            => selection' = selection]_vars

\* C4 amended: a cancelling release tick leaves selection unchanged and
\* clears the tracking; its cancel step leaves dirty_selection unchanged and
\* the reconciliation step of the same tick then clears a pending one; ticks
\* with the touch down or without a tracked cell never change selection
C4_Cancel ==
    [][\A st \in TouchStates, p \in TouchPoints :
         /\ (st = "Released" /\ IsCancel(TouchIndex(p[1], p[2]))
               /\ TickWith(st, p[1], p[2]))
            => /\ selection' = selection
               /\ TouchUp(LoopState, TouchIndex(p[1], p[2])).dirty_selection
                    = dirty_selection
               /\ dirty_selection' = None
               /\ active_item' = None
         /\ ((IsDown(st) \/ active_item = None) /\ TickWith(st, p[1], p[2]))
            => selection' = selection]_vars

\* a release cancelled a press in a tick that also served a select call
C4_Witness ==
    /\ loopPc = "sleeping" /\ served = 1 /\ active_item = None
    /\ Writes("selection") = {}
    /\ Len(log) = 4 /\ log[1].op = "draw" /\ ~log[1].selected /\ ~log[1].active
    /\ log[4] = Write("dirty_selection", None)

\* C5: with touch input only, at the end of every tick a cell is drawn in a
\* selected appearance exactly if it is the cell at selection
C5_TouchScreenConsistent == loopPc = "sleeping" => ScreenConsistent

\* the log l holds the event e1 at a position before the event e2
Before(l, e1, e2) ==
    \E k1, k2 \in 1 .. Len(l) : k1 < k2 /\ l[k1] = e1 /\ l[k2] = e2

\* C6: the tick after exactly one select call, made between two ticks on a
\* consistent screen with selection = i, draws cell i non-selected, then the
\* cell at selection selected, and last clears dirty_selection; the screen
\* is then consistent, whatever the touch sample of that tick
C6_ReconcileOne ==
    [][\A st \in TouchStates, p \in TouchPoints :
         (/\ loopPc = "sleeping" /\ pending = 1
          /\ ScreenShows(dirty_selection)
          /\ TickWith(st, p[1], p[2]))
         => /\ dirty_selection' = None
            /\ ScreenConsistent'
            /\ Before(log', Draw(dirty_selection, FALSE, FALSE),
                      Draw(selection', TRUE, FALSE))
            /\ Before(log', Draw(selection', TRUE, FALSE),
                      Write("dirty_selection", None))
            /\ log'[Len(log')] = Write("dirty_selection", None)
            /\ Cardinality(Writes("dirty_selection")') = 1]_vars

\* one select call was reconciled by a tick that also committed a touch
C6_Witness ==
    /\ loopPc = "sleeping" /\ served = 1 /\ Committed
    /\ dirty_selection = None /\ ScreenConsistent
    /\ Len(log) = 6 /\ log[6] = Write("dirty_selection", None)
    /\ log[5] = Draw(selection, TRUE, FALSE)
    /\ log[4].index # selection /\ log[4].index # log[1].index

\* C7: after two or more select calls between two ticks, the next tick
\* leaves the screen consistent with the latest selection
C7_NoLostChange ==
    [][\A st \in TouchStates, p \in TouchPoints :
         (loopPc = "sleeping" /\ pending = 2 /\ TickWith(st, p[1], p[2]))
         => ScreenConsistent']_vars

\* C8: run invokes the callback of the route at selection as read when run
\* is called, once; while run awaits, the awaited routine stays that one and
\* no other callback is invoked, whatever happens to selection meanwhile
C8_RunsSelectedOnce ==
    [][/\ (runPc # "awaiting" /\ runPc' = "awaiting")
          => routine' = selection /\ invoked' = <<selection>>
       /\ runPc = "awaiting"
          => /\ routine' = routine /\ invoked' = invoked
             /\ runPc' \in {"awaiting", "done"}
       /\ runPc' = "done" => invoked' = <<routine'>>]_vars

\* a touch commit changed selection while the routine was suspended
C8_Witness ==
    /\ runPc = "awaiting" /\ polls >= 1 /\ routine # selection
    /\ Committed /\ pending = 0

\* C9: while the routine awaited by run is suspended, run holds no borrow
\* of the selector state, and the ticks executed meanwhile do not panic
C9_RunReleasesBorrow == runPc = "awaiting" => borrow = 0 /\ fault = "none"

\* the loop committed a touch between two resumptions of the routine
C9_Witness ==
    /\ runPc = "awaiting" /\ loopPc = "sleeping" /\ borrow = 0
    /\ Committed /\ routine # selection /\ LogHas(Draw(routine, FALSE, FALSE))

\* C10: no borrow attempt finds the state borrowed, and no borrow is live
\* where a task is suspended or not yet started: after the initial paint,
\* at the sleep of the loop, after select and during the routine of run
C10_NoDoubleBorrow == fault # "borrow" /\ borrow = 0

\* the loop, select and run have all borrowed the state
C10_Witness ==
    /\ loopPc = "sleeping" /\ served = 1 /\ runPc = "done" /\ pending = 1
    /\ fault = "none"

----------------------------------------------------------------------------
(* Construction and rejected calls *)

C12_SelectRejects ==
    [][\A index \in N .. (N + 1) :
         Select(index) =>
           /\ fault' = "assert"
           /\ UNCHANGED <<N, selection, dirty_selection, borrow,
                          active_item, screen, log, loopPc, runPc, routine,
                          invoked, polls, pending, served>>]_vars

\* a rejected select after an accepted one, with a cell tracked
C12_Witness ==
    /\ fault = "assert" /\ borrow = 0 /\ pending = 1
    /\ selection \in Routes /\ dirty_selection # None /\ active_item # None

\* C16: after construction, and before any select call, selection is 0 and
\* dirty_selection is none; the initial paint then shows cell 0 selected,
\* every other cell in default colors, and no cell is tracked
C16_InitialState ==
    /\ (loopPc \in {"spawned", "painted"} /\ pending = 0)
       => /\ N \in 1 .. 12
          /\ selection = 0 /\ dirty_selection = None /\ active_item = None
    /\ (loopPc = "painted" /\ pending = 0)
       => /\ Shown(0) = "selected"
          /\ \A i \in Routes \ {0} : Shown(i) = "default"
          /\ log = [i \in 1 .. N |-> Draw(i - 1, i = 1, FALSE)]

\* the initial paint of a full grid of twelve routes
C16_Witness == loopPc = "painted" /\ pending = 0 /\ N = 12 /\ Len(log) = 12

\* C18: a selector can be constructed with any route count from 1 to 16
C18_UpToSixteen ==
    [][(loopPc = "unbuilt" /\ fault = "none" /\ N >= 1 /\ N <= 16)
       => loopPc' = "spawned" /\ fault' = "none"]_vars

----------------------------------------------------------------------------
(* Gestures *)

Down == {st \in TouchStates : IsDown(st)}

\* C14: a touch down on an in-range cell b while another cell a is tracked
\* first redraws a non-active, then b active, and tracks b; a release then
\* sets selection to the tracked cell or leaves it, never to a cell left
C14_HoverFollows ==
    [][\A st \in TouchStates, p \in TouchPoints :
         /\ (/\ IsDown(st) /\ active_item # None
             /\ TouchIndex(p[1], p[2]) < N
             /\ TouchIndex(p[1], p[2]) # active_item
             /\ TickWith(st, p[1], p[2]))
            => /\ Len(log') >= 2
               /\ log'[1] = Draw(active_item, active_item = selection, FALSE)
               /\ log'[2] = Draw(TouchIndex(p[1], p[2]),
                                 TouchIndex(p[1], p[2]) = selection, TRUE)
               /\ active_item' = TouchIndex(p[1], p[2])
               /\ selection' = selection
         /\ (~IsDown(st) /\ active_item # None /\ TickWith(st, p[1], p[2]))
            => /\ selection' \in {selection, active_item}
               /\ TouchIndex(p[1], p[2]) = active_item
                  => selection' = active_item]_vars

\* the finger moved from the selected cell to another cell, which is tracked
C14_Witness ==
    /\ loopPc = "sleeping" /\ Len(log) = 2 /\ active_item # selection
    /\ log[1] = Draw(selection, TRUE, FALSE)
    /\ log[2] = Draw(active_item, FALSE, TRUE)

\* C19: a touch down on an out-of-range index while a cell a is tracked
\* redraws a non-active, clears the tracking and keeps selection; while no
\* cell is tracked, out-of-range touches track nothing and no tick, in
\* particular no release, changes selection
C19_DragOffGrid ==
    [][\A st \in TouchStates, p \in TouchPoints :
         /\ (/\ IsDown(st) /\ active_item # None
             /\ TouchIndex(p[1], p[2]) >= N
             /\ TickWith(st, p[1], p[2]))
            => /\ Len(log') >= 1
               /\ log'[1] = Draw(active_item, active_item = selection, FALSE)
               /\ active_item' = None
               /\ selection' = selection
         /\ (/\ active_item = None
             /\ ~IsDown(st) \/ TouchIndex(p[1], p[2]) >= N
             /\ TickWith(st, p[1], p[2]))
            => active_item' = None /\ selection' = selection]_vars

\* the selected cell was tracked and the finger left the grid
C19_Witness ==
    /\ loopPc = "sleeping" /\ active_item = None /\ served = 0
    /\ log = <<Draw(selection, TRUE, FALSE)>>

\* C20: with no dirty_selection, a tick that samples the touch down out of
\* range with no cell tracked, or up with no cell tracked, or down on the
\* tracked cell, draws nothing and changes neither selection,
\* dirty_selection nor the tracked cell
C20_IdleTick ==
    [][\A st \in TouchStates, p \in TouchPoints :
         (/\ dirty_selection = None
          /\ \/ IsDown(st) /\ active_item = None
                  /\ TouchIndex(p[1], p[2]) >= N
             \/ ~IsDown(st) /\ active_item = None
             \/ IsDown(st) /\ active_item = TouchIndex(p[1], p[2])
          /\ TickWith(st, p[1], p[2]))
         => /\ log' = <<>>
            /\ UNCHANGED <<selection, dirty_selection, active_item, screen,
                           fault>>]_vars

\* a tick that found the finger still on the tracked cell
C20_Witness ==
    /\ loopPc = "sleeping" /\ log = <<>> /\ active_item # None
    /\ dirty_selection = None /\ served = 0
    /\ ActiveLook(Shown(active_item))

----------------------------------------------------------------------------
(* Touch-to-index mapping *)

\* C15: within one horizontal half the computed index never decreases as y
\* increases, and once y is past the six rows (y / 40 >= 6) the index is out
\* of range for every route count N <= 12, in both halves
C15_IndexMonotonicBounded ==
    (probe.op = "touch_index" /\ probe.done)
    => /\ probe.y1 <= probe.y2 => probe.i1 <= probe.i2
       /\ probe.y1 \div 40 >= 6 => probe.i1 >= probe.n

----------------------------------------------------------------------------
(* Route labels *)

\* the whole text after the last ':' of a name
LastSegment(name) == SubSeq(name, RFind(name) + 1, Len(name))

\* C17: without an explicit label route! stores the last path segment of
\* the routine's name, the text after its last ':'; with an explicit label
\* it stores exactly that label
C17_RouteLabel ==
    (probe.op = "route" /\ (probe.done \/ fault # "none"))
    => /\ fault = "none"
       /\ probe.label = IF probe.explicit THEN probe.name
                        ELSE LastSegment(probe.type_name)

----------------------------------------------------------------------------
(* Competition lifecycle *)

AutonomousTrace ==
    <<"before_route:start", "before_route:end", "run:start", "run:end",
      "after_route:start", "after_route:end">>

IsPrefix(s, full) == Len(s) <= Len(full) /\ s = SubSeq(full, 1, Len(s))

----------------------------------------------------------------------------
(* Indexing of the route table *)

\* C21: the tracked active cell and dirty_selection, when present, are valid
\* route indices, and no section of the loop task indexes the route table
\* out of bounds, whatever the touch samples (positions that map to indices
\* >= N included) and the interleaving with valid select calls
C21_IndicesValid ==
    /\ active_item \in Routes \cup {None}
    /\ dirty_selection \in Routes \cup {None}
    /\ fault # "bounds"

\* a cell is tracked while a select call is pending, the selection having
\* been moved off route 0 before that call
C21_Witness ==
    /\ loopPc = "sleeping" /\ fault = "none"
    /\ active_item \in Routes
    /\ dirty_selection \in Routes /\ dirty_selection # 0
    /\ selection # dirty_selection

----------------------------------------------------------------------------
(* Active highlight *)

\* C22: at the end of every tick a cell i < N is shown in an active
\* appearance (active or selected-active) if and only if i is the cell the
\* loop tracks as active, for any interleaving of touch samples and valid
\* select calls
C22_ActiveHighlightTracked ==
    (loopPc = "sleeping" /\ fault = "none")
    => \A i \in Routes : ActiveLook(Shown(i)) <=> i = active_item

----------------------------------------------------------------------------
(* Hit-testing and drawing *)

\* C23: for every cell index i in 0..11 and every pixel of the rectangle
\* draw_item fills for cell i, the touch-to-index mapping returns i
C23_HitTestAgreesWithDraw ==
    (probe.op = "hit_test" /\ probe.done) => probe.hit = probe.index

\* the mapping has been applied to the pixel of the last cell farthest from
\* its start corner within the stated width and height
C23_Witness ==
    /\ probe.op = "hit_test" /\ probe.done
    /\ probe.index = 11 /\ probe.x = 240 + 237 /\ probe.y = 200 + 37
    /\ probe.hit = 11

====
